---- MODULE Spec2Model ----
(***************************************************************************)
(* Connection pool, checkout handle (_Connector) and reentrant transaction *)
(* protocol of src/pool.py, over the raw session of src/base_db.py.        *)
(*                                                                         *)
(* A raw session (base_db.Connection) is a number 1..nconn; db[s] is the   *)
(* state of its `db` field: "open" (a MySQLdb connection whose server      *)
(* answers), "broken" (a MySQLdb connection whose server is gone: ping,    *)
(* begin, commit and rollback raise OperationalError) and "none" (db is    *)
(* None: never connected, or closed by Connection.close).                  *)
(* A checkout handle (_Connector) is an index into `handles`.              *)
(***************************************************************************)
EXTENDS Integers, Sequences, FiniteSets, TLC

\* ---------------------------------------------------------------- bounds
\* pool_size of the pool under test
PoolSize == 1
\* sessions the factory builds in a run
MaxSessions == 2
\* handles checked out in a run
MaxHandles == 2
\* transaction entries made in a run
MaxTx == 2
\* length of the idle queue, which repeated close calls grow
MaxIdle == 2
\* sessions that lose their server or never connect in a run
MaxFaults == 1
\* threads that call the pool concurrently
NThreads == 2

\* ------------------------------------------------------- configuration
\* base_db.Connection(allow_ping=True): the pool passes no other value
allow_ping == TRUE

VARIABLES
    db,                 \* db[s]: state of Connection.db of session s
    nconn,              \* number of Connection objects constructed so far
    connections,        \* ConnectionPool._connections (the active set)
    idle_connections,   \* ConnectionPool._idle_connections (the idle queue)
    pool_close,         \* ConnectionPool.pool_close
    handles,            \* the _Connector objects, in order of construction
    hist,               \* per handle: what the transaction calls on it did
    ntx,                \* number of transaction entries made so far
    nfault,             \* number of sessions that broke or never connected
    last,               \* the last operation and what it did
    call,               \* the connect call in progress, statement by statement
    conc                \* the calls of the concurrent callers (threads)

vars == <<db, nconn, connections, idle_connections, pool_close, handles, hist, ntx,
          nfault, last, call, conc>>

Sessions == 1..MaxSessions
DbStates == {"absent", "open", "broken", "none"}
\* what Connection(...) can do: connect, fail to connect (the constructor
\* logs the error and leaves db = None), or raise
FactoryOutcomes == {"open", "none", "raise"}

InSeq(x, s) == \E i \in 1..Len(s) : s[i] = x
Count(x, s) == Cardinality({i \in 1..Len(s) : s[i] = x})

\* list.remove(x): drops the first occurrence of x
RECURSIVE Remove(_, _)
Remove(x, s) ==
    IF s = <<>> THEN <<>>
    ELSE IF Head(s) = x THEN Tail(s)
    ELSE <<Head(s)>> \o Remove(x, Tail(s))

\* ------------------------------------------------------------ history
NoLast ==
    [op |-> "init", h |-> 0, conn |-> 0, err |-> "none", lvl |-> 0,
     commit |-> FALSE, rollback |-> FALSE, begin |-> FALSE,
     popped |-> <<>>, passed |-> 0, made |-> <<>>,
     closedRaw |-> FALSE, enq |-> FALSE, tried |-> FALSE, full |-> FALSE,
     swapped |-> FALSE,
     rb2 |-> FALSE, raised |-> "none", reached |-> FALSE, again |-> FALSE]

\* the frame of a running connect call: pc is the statement it is at
\* ("get_idle": a call of get_idle_connect, "create": the factory call of
\* connect, "ready": no call runs), queue the idle queue it found, and what
\* it did so far
NoCall ==
    [pc |-> "ready", is_transaction |-> FALSE, queue |-> <<>>, full |-> FALSE,
     popped |-> <<>>, made |-> <<>>]
\* the callers are one thread: an operation starts when none is running
Ready == call.pc = "ready"

\* the frame of the call a thread is in: pc the statement it is at ("idle":
\* in no call), h and conn the handle and session it works on, conns the
\* active set as connect read it for its capacity test, member the result
\* of the membership test of close, i the position of the loop of
\* clean_pool
Threads == 1..NThreads
NoFrame ==
    [pc |-> "idle", h |-> 0, conn |-> 0, conns |-> <<>>, member |-> FALSE, i |-> 0]
\* conc.late: a checkout was called after a teardown had begun
NoConc == [frame |-> [t \in Threads |-> NoFrame], late |-> FALSE]

\* per handle. entered = transaction entries made on it, commitCalls =
\* calls of commit_transaction, realCommits = commits issued on its raw
\* session; the three are kept while pure holds: the handle was checked
\* out with is_transaction and has so far seen only successful entries
\* followed by commit calls that raised nothing. frames = open
\* transaction_context scopes. onScript = built by transaction_context,
\* entered again only inside one of its open scopes and never passed to
\* commit/rollback_transaction outside a scope exit;
\* released = effective releases of such a handle made by the
\* transaction calls (capped at 2). rb2 = the last transaction call on it
\* was rollback_transaction at level 2, on an open handle whose session
\* answers.
NoHist ==
    [entered |-> 0, commitCalls |-> 0, realCommits |-> 0, pure |-> FALSE,
     frames |-> 0, onScript |-> FALSE, released |-> 0, rb2 |-> FALSE]

Norm(hr) ==
    LET a == IF hr.pure THEN hr
             ELSE [hr EXCEPT !.entered = 0, !.commitCalls = 0, !.realCommits = 0]
    IN IF a.onScript THEN a ELSE [a EXCEPT !.released = 0]

\* ------------------------------------------------------------ factory
\* ConnectionPool._create -> Connection.__init__: a new session object;
\* a failed connect is swallowed by the constructor and leaves db = None
Create(st, outcome) ==
    IF outcome = "raise"
    THEN [st EXCEPT !.err = "FactoryError"]
    ELSE [st EXCEPT !.err = "none",
                    !.n = st.n + 1,
                    !.db = [s \in DOMAIN st.db \cup {st.n + 1} |->
                               IF s = st.n + 1 THEN outcome ELSE st.db[s]],
                    !.ret = st.n + 1,
                    !.made = Append(st.made, st.n + 1)]

\* the liveness probe of _ping: conn.db.ping(), or with allow_ping off
\* conn.db.verify_ping(), which the MySQLdb connection does not have
Alive(st, conn) ==
    IF allow_ping THEN st.db[conn] = "open" ELSE FALSE

\* what the probe leaves of conn.db: with allow_ping off the failed probe
\* closes the MySQLdb connection and keeps the Connection.db reference
AfterProbe(st, conn) ==
    IF ~allow_ping /\ st.db[conn] = "open"
    THEN [st EXCEPT !.db = [st.db EXCEPT ![conn] = "broken"]]
    ELSE st

\* ConnectionPool._ping(conn, reconnect): st.ret is the session returned
PingSwap(conns, conn, new) ==
    IF InSeq(conn, conns) THEN Append(Remove(conn, conns), new) ELSE conns

Ping(st0, conn, reconnect, outcome) ==
    LET st == AfterProbe(st0, conn)
        Replaced(c) ==
            IF c.err # "none" THEN c
            ELSE [c EXCEPT !.conns = PingSwap(c.conns, conn, c.ret)]
    IN IF Alive(st0, conn)
       THEN [st EXCEPT !.err = "none", !.ret = conn, !.passed = conn]
       ELSE IF reconnect
            THEN Replaced(Create(st, outcome))
            ELSE [st EXCEPT !.err = "ConnectionClosedError"]

\* the session get_idle_connect hands back after a successful _ping:
\* `_ = self._ping(conn)` drops the session _ping returned
IdleResult(conn, pinged) == conn

\* (mutant of PopIdle: the head is read and left on the queue)
PopIdlePeek(idle) == idle

\* what self._idle_connections.pop(0) leaves of the idle queue
PopIdle(idle) == Tail(idle)

\* one invocation of get_idle_connect on a non-empty idle queue, up to its
\* return (st.err = "none") or its recursive call (st.err the error _ping
\* raised, which the except clause swallows)
GetIdleOnce(st, outcome) ==
    LET conn == Head(st.idle)
        Pinged(p) ==
            IF p.err # "none"
            THEN [p EXCEPT !.fails = p.fails + 1, !.ret = 0]
            ELSE [p EXCEPT !.ret = IdleResult(conn, p.ret)]
    IN Pinged(Ping([st EXCEPT !.idle = PopIdle(st.idle),
                              !.popped = Append(st.popped, conn)],
                   conn, TRUE, outcome))

\* ConnectionPool.get_idle_connect; fo[k] is the outcome of the k-th call
\* of the factory; st.ret = 0 stands for None. The recursion is as deep as
\* the idle queue has dead sessions whose replacement fails; the depth the
\* interpreter allows is not modelled
RECURSIVE GetIdle(_, _)
GetIdle(st, fo) ==
    LET Again(g) == IF g.err # "none" THEN GetIdle(g, fo) ELSE g IN
    IF st.idle = <<>>
    THEN [st EXCEPT !.ret = 0, !.err = "none"]
    ELSE Again(GetIdleOnce(st, fo[Len(st.made) + st.fails + 1]))

\* the outcomes of the factory calls of one operation, k calls at most:
\* the calls after the first session built are never made
Outcomes(k) ==
    {fo \in [1..k -> FactoryOutcomes] :
        \A i, j \in 1..k : (i < j /\ fo[i] # "raise") => fo[j] = "raise"}

\* the local state an operation works on
Start ==
    [db |-> db, n |-> nconn, conns |-> connections, idle |-> idle_connections,
     err |-> "none", ret |-> 0, passed |-> 0, made |-> <<>>, popped |-> <<>>,
     fails |-> 0, tried |-> FALSE]

\* _Connector.__init__
NewConnector(conn, is_transaction) ==
    [conn |-> conn, closed |-> FALSE,
     transaction_level |-> IF is_transaction THEN 1 ELSE 0,
     is_transaction |-> is_transaction]

\* (mutant of HasRoom: the test lets one session too many in)
HasRoomOffByOne(st) == Len(st.conns) <= PoolSize

\* the capacity test of connect: the new session joins the active set
\* only while the set is below pool_size
HasRoom(st) == Len(st.conns) < PoolSize

\* the tail of connect: the factory call and the admission of the new
\* session to the active set
CreateAndAdmit(st, outcome) ==
    LET Admit(c) ==
            IF c.err # "none" THEN c
            ELSE IF HasRoom(c)
                 THEN [c EXCEPT !.conns = Append(c.conns, c.ret)]
                 ELSE c
    IN Admit(Create([st EXCEPT !.tried = TRUE], outcome))

\* ConnectionPool.connect without the construction of the handle:
\* st.err = "none" and st.ret the session to wrap, or st.err the error
ConnectSession(st0, fo) ==
    LET Rest(g) ==
            IF st0.idle # <<>> /\ g.ret # 0
            THEN g
            ELSE CreateAndAdmit(g, fo[Len(g.made) + g.fails + 1])
    IN Rest(IF st0.idle # <<>> THEN GetIdle(st0, fo) ELSE st0)

\* ------------------------------------------------------ checkout handle
\* (mutant of in_transaction: no handle counts as mid-transaction)
in_transactionNever(hs, h) == FALSE

\* _Connector.in_transaction
in_transaction(hs, h) == hs[h].transaction_level > 0

\* (mutant of IsPooled: every released session is recycled)
IsPooledAlways(st, conn) == TRUE

\* the routing of _Connector.close: an active-set member goes back to the
\* idle queue, any other session is closed for real
IsPooled(st, conn) == InSeq(conn, st.conns)

\* _Connector.close on handle h: r.st and r.hs afterwards, r.ret the value
\* returned ("None" mid-transaction, "True" closed for real, "False" recycled)
CloseHandle(st, hs, h) ==
    IF in_transaction(hs, h)
    THEN [st |-> st, hs |-> hs, ret |-> "None"]
    ELSE LET hs1 == [hs EXCEPT ![h].closed = TRUE] IN
         IF ~IsPooled(st, hs[h].conn)
         THEN [st |-> [st EXCEPT !.db = [st.db EXCEPT ![hs[h].conn] = "none"]],
               hs |-> hs1, ret |-> "True"]
         ELSE [st |-> [st EXCEPT !.idle = Append(st.idle, hs[h].conn)],
               hs |-> hs1, ret |-> "False"]

\* (mutant of Forwards: a closed handle forwards as an open one does)
ForwardsAlways(hs, h) == TRUE

\* _Connector.__getattr__: an attribute the handle does not have itself is
\* looked up on its raw session unless the handle is closed
Forwards(hs, h) == ~hs[h].closed

\* what MySQLdb.connect does in Connection.reconnect
ReconnectOutcomes == {"open", "raise"}

\* a query method of base_db.Connection on a session whose db is d: stale
\* says that the session was idle longer than max_idle_time. r.d is db
\* afterwards: _ensure_connected reconnects a session that is stale or has
\* no db, and _execute closes the session whose server is gone
SessionCall(d, stale, outcome) ==
    IF d = "none" \/ stale
    THEN IF outcome = "open"
         THEN [d |-> "open", err |-> "none"]
         ELSE [d |-> "none", err |-> "OperationalError"]
    ELSE IF d = "open"
         THEN [d |-> "open", err |-> "none"]
         ELSE [d |-> "none", err |-> "OperationalError"]

\* ------------------------------------------------------- transactions
\* the finally clause of _end_transaction
EndTransactionFinally(st, hs, h) ==
    LET Closed(c) == [c EXCEPT !.hs = [c.hs EXCEPT ![h].is_transaction = FALSE]] IN
    IF hs[h].transaction_level < 1
    THEN Closed(CloseHandle(st, hs, h))
    ELSE [st |-> st, hs |-> hs, ret |-> "None"]

\* commit_transaction: the test that leaves the commit to an outer frame,
\* made on the level already decremented by _end_transaction
AbsorbsCommit(level) == level > 1

\* rollback_transaction: the test for a nested frame, made on the level
\* already decremented by _end_transaction
IsNestedRollback(level) == level > 1

\* what db.commit() does on an open session: it returns, raises the
\* driver's OperationalError, or raises another error of the driver
CommitOutcomes == {"none", "OperationalError", "Error"}

\* (mutant of CaughtByCommit: no error of the commit is handled)
CaughtByCommitNever(err) == FALSE

\* the except clause of commit_transaction: the errors of db.commit() that
\* are answered by db.rollback()
CaughtByCommit(err) == err = "OperationalError"

\* the body of commit_transaction under _end_transaction; cok is what the
\* commit of an open session does. On a session whose server is gone the
\* commit and the rollback that answers it raise OperationalError
CommitBody(st, hs, h, cok) ==
    LET d == st.db[hs[h].conn]
        cerr == IF d = "open" THEN cok ELSE "OperationalError"
    IN
    IF AbsorbsCommit(hs[h].transaction_level)
    THEN [err |-> "none", commit |-> FALSE, rollback |-> FALSE]
    ELSE IF d = "none"
    THEN [err |-> "AttributeError", commit |-> FALSE, rollback |-> FALSE]
    ELSE [err |-> cerr, commit |-> TRUE,
          rollback |-> (cerr # "none" /\ CaughtByCommit(cerr))]

\* ConnectionPool.commit_transaction(using_conn)
CommitTransaction(st, hs, h, cok) ==
    LET hs1 == [hs EXCEPT ![h].transaction_level = @ - 1]
        Result(b, f) ==
            [st |-> f.st, hs |-> f.hs, ret |-> f.ret, err |-> b.err,
             commit |-> b.commit, rollback |-> b.rollback]
    IN IF hs[h].transaction_level < 1
       THEN [st |-> st, hs |-> hs, ret |-> "None", err |-> "TransactionAbortError",
             commit |-> FALSE, rollback |-> FALSE]
       ELSE Result(CommitBody(st, hs1, h, cok), EndTransactionFinally(st, hs1, h))

\* the body of rollback_transaction under _end_transaction: r.hs carries
\* the level the body leaves
RollbackBody(st, hs, h) ==
    LET d == st.db[hs[h].conn]
        issued == d # "none" /\ ~hs[h].closed
        err1 == IF d = "none" THEN "none"
                ELSE IF hs[h].closed THEN "ConnectionClosedError"
                ELSE IF d = "broken" THEN "OperationalError"
                ELSE "none"
    IN IF err1 # "none"
       THEN [hs |-> hs, err |-> err1, rollback |-> issued]
       ELSE IF IsNestedRollback(hs[h].transaction_level)
       THEN [hs |-> [hs EXCEPT ![h].transaction_level = 0],
             err |-> "TransactionAbortError", rollback |-> issued]
       ELSE [hs |-> hs, err |-> "none", rollback |-> issued]

\* ConnectionPool.rollback_transaction(using_conn)
RollbackTransaction(st, hs, h) ==
    LET hs1 == [hs EXCEPT ![h].transaction_level = @ - 1]
        Result(b, f) ==
            [st |-> f.st, hs |-> f.hs, ret |-> f.ret, err |-> b.err,
             commit |-> FALSE, rollback |-> b.rollback]
        Finally(b) == Result(b, EndTransactionFinally(st, b.hs, h))
    IN IF hs[h].transaction_level < 1
       THEN [st |-> st, hs |-> hs, ret |-> "None", err |-> "TransactionAbortError",
             commit |-> FALSE, rollback |-> FALSE]
       ELSE Finally(RollbackBody(st, hs1, h))

\* (mutant of ScopeExitRaises: a failed rollback replaces the body's error)
ScopeExitRaisesRollbackError(exc, err) ==
    IF exc /\ err = "none" THEN "BodyError" ELSE err

\* what leaves a transaction_context scope: exc says that the body raised
\* (an Exception, "BodyError"), err is what rollback_transaction or
\* commit_transaction raised. The error of the rollback is logged and the
\* body's error raised again; the error of the commit is raised
ScopeExitRaises(exc, err) ==
    IF exc THEN "BodyError" ELSE err

\* using_conn.conn.db.begin()
BeginErr(d) ==
    IF d = "open" THEN "none"
    ELSE IF d = "broken" THEN "OperationalError"
    ELSE "AttributeError"

\* the liveness check of a nested transaction_context entry:
\* self._ping(using_conn.conn), with _ping's default reconnect
NestedPing(st, conn, outcome) == Ping(st, conn, TRUE, outcome)

\* ------------------------------------------------------------ history
Released(ret) == ret \in {"True", "False"}
Bump(n, ret) == IF Released(ret) /\ n < 2 THEN n + 1 ELSE n

HistCommit(hr, r, scope) ==
    Norm([hr EXCEPT !.commitCalls = @ + 1,
                    !.realCommits = IF r.commit THEN @ + 1 ELSE @,
                    !.pure = @ /\ r.err = "none",
                    !.frames = IF scope THEN @ - 1 ELSE @,
                    !.onScript = @ /\ scope,
                    !.released = Bump(@, r.ret),
                    !.rb2 = FALSE])

HistRollback(hr, lvl, ok, r, scope) ==
    Norm([hr EXCEPT !.pure = FALSE,
                    !.frames = IF scope THEN @ - 1 ELSE @,
                    !.onScript = @ /\ scope,
                    !.released = Bump(@, r.ret),
                    !.rb2 = (lvl = 2 /\ ok)])

LastTx(name, h, r) ==
    [NoLast EXCEPT !.op = name, !.h = h, !.conn = handles[h].conn,
                   !.err = r.err,
                   !.lvl = handles[h].transaction_level,
                   !.commit = r.commit, !.rollback = r.rollback,
                   !.closedRaw = (r.ret = "True"), !.enq = (r.ret = "False"),
                   !.rb2 = hist[h].rb2]

\* sessions the factory built unconnected (db = None) in an operation
Unconnected(r) == Cardinality({i \in 1..Len(r.made) : r.db[r.made[i]] = "none"})

\* an open handle on a session whose server answers
Healthy(h) == db[handles[h].conn] = "open" /\ ~handles[h].closed

\* a free slot of `handles`: no _Connector object lives there
NoConnector ==
    [conn |-> 0, closed |-> FALSE, transaction_level |-> 0, is_transaction |-> FALSE]
Free(h) == handles[h].conn = 0
\* a handle some caller can still name
Held(h) == h \in 1..MaxHandles /\ ~Free(h)
\* the slot the next _Connector object takes
NewSlot == CHOOSE h \in 1..MaxHandles : Free(h) /\ \A g \in 1..(h - 1) : ~Free(g)
\* bound on the idle queue, which repeated close calls grow
CanEnqueue == Len(idle_connections) < MaxIdle

Init ==
    /\ db = [s \in Sessions |-> "absent"]
    /\ nconn = 0
    /\ connections = <<>>
    /\ idle_connections = <<>>
    /\ pool_close = FALSE
    /\ handles = [h \in 1..MaxHandles |-> NoConnector]
    /\ hist = [h \in 1..MaxHandles |-> NoHist]
    /\ ntx = 0
    /\ nfault = 0
    /\ last = NoLast
    /\ call = NoCall
    /\ conc = NoConc

\* ------------------------------------------------------------ actions
\* pool.connect(is_transaction)
Connect(is_transaction) ==
    /\ Ready
    /\ \E h \in 1..MaxHandles : Free(h)
    /\ is_transaction => ntx < MaxTx
    /\ \E fo \in Outcomes(Len(idle_connections) + 1) :
         \E r \in {ConnectSession(Start, fo)} :
         /\ r.n <= MaxSessions
         /\ nfault + Unconnected(r) <= MaxFaults
         /\ db' = r.db
         /\ nconn' = r.n
         /\ connections' = r.conns
         /\ idle_connections' = r.idle
         /\ nfault' = nfault + Unconnected(r)
         /\ IF r.err = "none"
            THEN /\ handles' = [handles EXCEPT ![NewSlot] =
                                    NewConnector(r.ret, is_transaction)]
                 /\ hist' = [hist EXCEPT ![NewSlot] = [NoHist EXCEPT
                                !.entered = IF is_transaction THEN 1 ELSE 0,
                                !.pure = is_transaction]]
                 /\ ntx' = IF is_transaction THEN ntx + 1 ELSE ntx
            ELSE UNCHANGED <<handles, hist, ntx>>
         /\ last' = [NoLast EXCEPT !.op = "connect",
                        !.h = IF r.err = "none" THEN NewSlot ELSE 0,
                        !.conn = IF r.err = "none" THEN r.ret ELSE 0,
                        !.err = r.err, !.popped = r.popped, !.passed = r.passed,
                        !.made = r.made, !.tried = r.tried,
                        !.full = (Len(connections) >= PoolSize)]
    /\ UNCHANGED pool_close
    /\ UNCHANGED <<call, conc>>

\* handle.close(), called by the user any number of times
Close(h) ==
    /\ Ready
    /\ Held(h)
    /\ CanEnqueue
    /\ \E r \in {CloseHandle(Start, handles, h)} :
       /\ db' = r.st.db
       /\ idle_connections' = r.st.idle
       /\ handles' = r.hs
       /\ last' = [NoLast EXCEPT !.op = "close", !.h = h, !.conn = handles[h].conn,
                      !.lvl = handles[h].transaction_level,
                      !.closedRaw = (r.ret = "True"), !.enq = (r.ret = "False")]
    /\ UNCHANGED <<nconn, connections, pool_close, hist, ntx, nfault>>
    /\ UNCHANGED <<call, conc>>

\* _Connector.__del__: the last reference to the handle goes away, which
\* the open transaction_context scopes of the handle prevent
Del(h) ==
    /\ Ready
    /\ Held(h)
    /\ hist[h].frames = 0
    /\ CanEnqueue
    /\ \E r \in {IF ~handles[h].closed THEN CloseHandle(Start, handles, h)
                  ELSE [st |-> Start, hs |-> handles, ret |-> "None"]} :
       /\ db' = r.st.db
       /\ idle_connections' = r.st.idle
       /\ handles' = [handles EXCEPT ![h] = NoConnector]
       /\ hist' = [hist EXCEPT ![h] = NoHist]
       /\ last' = [NoLast EXCEPT !.op = "del", !.h = h, !.conn = handles[h].conn,
                      !.lvl = handles[h].transaction_level,
                      !.closedRaw = (r.ret = "True"), !.enq = (r.ret = "False")]
    /\ UNCHANGED <<nconn, connections, pool_close, ntx, nfault>>
    /\ UNCHANGED <<call, conc>>

\* the exit of `with handle:`; exc says whether an exception escapes the
\* body. _Connector.__exit__ calls self._pool.rollback_transaction() with
\* no argument, which raises TypeError before rollback_transaction runs;
\* on every other path __exit__ is the call of close, recorded as such
ConnectorExit(h, exc) ==
    /\ Ready
    /\ Held(h)
    /\ CanEnqueue
    /\ IF in_transaction(handles, h) /\ exc
       THEN /\ last' = [NoLast EXCEPT !.op = "exit_exc", !.h = h,
                           !.conn = handles[h].conn, !.err = "TypeError",
                           !.lvl = handles[h].transaction_level]
            /\ UNCHANGED <<db, idle_connections, handles>>
       ELSE \E r \in {CloseHandle(Start, handles, h)} :
            /\ db' = r.st.db
            /\ idle_connections' = r.st.idle
            /\ handles' = r.hs
            /\ last' = [NoLast EXCEPT !.op = "close",
                           !.h = h, !.conn = handles[h].conn,
                           !.lvl = handles[h].transaction_level,
                           !.closedRaw = (r.ret = "True"), !.enq = (r.ret = "False")]
    /\ UNCHANGED <<nconn, connections, pool_close, hist, ntx, nfault>>
    /\ UNCHANGED <<call, conc>>

\* pool.commit_transaction(handle) called directly
Commit(h) ==
    /\ Ready
    /\ Held(h)
    /\ CanEnqueue
    /\ \E cok \in CommitOutcomes :
         \E r \in {CommitTransaction(Start, handles, h, cok)} :
         /\ db' = r.st.db
         /\ idle_connections' = r.st.idle
         /\ handles' = r.hs
         /\ hist' = [hist EXCEPT ![h] = HistCommit(@, r, FALSE)]
         /\ last' = LastTx("commit", h, r)
    /\ UNCHANGED <<nconn, connections, pool_close, ntx, nfault>>
    /\ UNCHANGED <<call, conc>>

\* pool.rollback_transaction(handle) called directly
Rollback(h) ==
    /\ Ready
    /\ Held(h)
    /\ CanEnqueue
    /\ \E r \in {RollbackTransaction(Start, handles, h)} :
       /\ db' = r.st.db
       /\ idle_connections' = r.st.idle
       /\ handles' = r.hs
       /\ hist' = [hist EXCEPT ![h] =
                      HistRollback(@, handles[h].transaction_level, Healthy(h), r, FALSE)]
       /\ last' = LastTx("rollback", h, r)
    /\ UNCHANGED <<nconn, connections, pool_close, ntx, nfault>>
    /\ UNCHANGED <<call, conc>>

\* entry of `with pool.transaction_context():` (no handle given): connect
\* with is_transaction, then begin. When begin raises, the scope is never
\* entered and the handle, which no caller ever sees, is finalized at
\* once: its __del__ calls close, which does nothing at level 1
TransactionContextNew ==
    /\ Ready
    /\ \E h \in 1..MaxHandles : Free(h)
    /\ ntx < MaxTx
    /\ \E fo \in Outcomes(Len(idle_connections) + 1) :
         \E r \in {ConnectSession(Start, fo)} :
         LET berr == IF r.err = "none" THEN BeginErr(r.db[r.ret]) ELSE r.err IN
         /\ r.n <= MaxSessions
         /\ nfault + Unconnected(r) <= MaxFaults
         /\ db' = r.db
         /\ nconn' = r.n
         /\ connections' = r.conns
         /\ idle_connections' = r.idle
         /\ nfault' = nfault + Unconnected(r)
         /\ IF berr = "none"
            THEN /\ handles' = [handles EXCEPT ![NewSlot] = NewConnector(r.ret, TRUE)]
                 /\ hist' = [hist EXCEPT ![NewSlot] = [NoHist EXCEPT
                                !.entered = 1, !.pure = TRUE,
                                !.onScript = TRUE, !.frames = 1]]
            ELSE UNCHANGED <<handles, hist>>
         /\ ntx' = IF r.err = "none" THEN ntx + 1 ELSE ntx
         /\ last' = [NoLast EXCEPT !.op = "tx_new",
                        !.h = IF berr = "none" THEN NewSlot ELSE 0,
                        !.conn = IF r.err = "none" THEN r.ret ELSE 0,
                        !.err = berr, !.popped = r.popped, !.passed = r.passed,
                        !.made = r.made, !.tried = r.tried,
                        !.full = (Len(connections) >= PoolSize),
                        !.begin = (r.err = "none" /\ r.db[r.ret] # "none")]
    /\ UNCHANGED pool_close
    /\ UNCHANGED <<call, conc>>

\* entry of `with pool.transaction_context(handle):` (nested entry)
TransactionContextNested(h) ==
    /\ Ready
    /\ Held(h)
    /\ ntx < MaxTx
    /\ \E outcome \in Outcomes(1) :
         \E p \in {NestedPing(Start, handles[h].conn, outcome[1])} :
         LET conn == handles[h].conn
             berr == IF p.err = "none" THEN BeginErr(p.db[conn]) ELSE p.err
         IN
         /\ p.n <= MaxSessions
         /\ nfault + Unconnected(p) <= MaxFaults
         /\ db' = p.db
         /\ nconn' = p.n
         /\ connections' = p.conns
         /\ nfault' = nfault + Unconnected(p)
         /\ IF p.err = "none"
            THEN /\ handles' = [handles EXCEPT ![h].transaction_level = @ + 1]
                 /\ hist' = [hist EXCEPT ![h] = Norm([@ EXCEPT
                        !.entered = @ + 1,
                        !.pure = @ /\ hist[h].commitCalls = 0 /\ berr = "none",
                        !.frames = IF berr = "none" THEN @ + 1 ELSE @,
                        !.onScript = @ /\ hist[h].frames > 0,
                        !.rb2 = FALSE])]
                 /\ ntx' = ntx + 1
            ELSE UNCHANGED <<handles, hist, ntx>>
         /\ last' = [NoLast EXCEPT !.op = "tx_nested", !.h = h, !.conn = conn,
                        !.err = berr,
                        !.lvl = handles[h].transaction_level,
                        !.passed = p.passed, !.made = p.made,
                        !.swapped = (p.conns # connections),
                        !.begin = (p.err = "none" /\ p.db[conn] # "none"),
                        !.rb2 = hist[h].rb2]
    /\ UNCHANGED <<idle_connections, pool_close>>
    /\ UNCHANGED <<call, conc>>

\* exit of a transaction_context scope; exc says whether an exception
\* escapes the body (rollback and re-raise) or not (commit)
TransactionContextExit(h, exc) ==
    /\ Ready
    /\ Held(h)
    /\ hist[h].frames > 0
    /\ CanEnqueue
    /\ \E cok \in CommitOutcomes :
         \E r \in {IF exc THEN RollbackTransaction(Start, handles, h)
                    ELSE CommitTransaction(Start, handles, h, cok)} :
         /\ db' = r.st.db
         /\ idle_connections' = r.st.idle
         /\ handles' = r.hs
         /\ hist' = [hist EXCEPT ![h] =
                IF exc THEN HistRollback(@, handles[h].transaction_level,
                                         Healthy(h), r, TRUE)
                ELSE HistCommit(@, r, TRUE)]
         /\ last' = [LastTx(IF exc THEN "tx_exit_exc" ELSE "tx_exit", h, r)
                        EXCEPT !.raised = ScopeExitRaises(exc, r.err)]
    /\ UNCHANGED <<nconn, connections, pool_close, ntx, nfault>>
    /\ UNCHANGED <<call, conc>>

\* handle.query(...), handle.execute(...) and the like: a session method
\* called through the handle
Use(h) ==
    /\ Ready
    /\ Held(h)
    /\ IF Forwards(handles, h)
       THEN \E stale \in BOOLEAN, outcome \in ReconnectOutcomes :
              \E r \in {SessionCall(db[handles[h].conn], stale, outcome)} :
                LET lost == IF db[handles[h].conn] = "open" /\ r.d = "none"
                            THEN 1 ELSE 0 IN
                /\ nfault + lost <= MaxFaults
                /\ nfault' = nfault + lost
                /\ db' = [db EXCEPT ![handles[h].conn] = r.d]
                /\ last' = [NoLast EXCEPT !.op = "use", !.h = h,
                               !.conn = handles[h].conn, !.err = r.err,
                               !.lvl = handles[h].transaction_level,
                               !.reached = TRUE]
       ELSE /\ last' = [NoLast EXCEPT !.op = "use", !.h = h,
                           !.conn = handles[h].conn,
                           !.err = "ConnectionClosedError",
                           !.lvl = handles[h].transaction_level]
            /\ UNCHANGED <<db, nfault>>
    /\ UNCHANGED <<nconn, connections, idle_connections, pool_close, handles,
                   hist, ntx>>
    /\ UNCHANGED <<call, conc>>

\* (mutant of CloseAll: the idle sessions are dropped without being closed)
CloseAllSkip(d, idle) == d

\* the loop of clean_pool: Connection.close on every idle session
CloseAll(d, idle) ==
    [s \in DOMAIN d |-> IF InSeq(s, idle) THEN "none" ELSE d[s]]

\* ConnectionPool.clean_pool; last.again says that the call follows
\* another call of clean_pool at once, last.closedRaw that these calls
\* closed a session that had a db
CleanPool ==
    /\ Ready
    /\ db' = CloseAll(db, idle_connections)
    /\ idle_connections' = <<>>
    /\ connections' = <<>>
    /\ pool_close' = TRUE
    /\ last' = [NoLast EXCEPT !.op = "clean_pool",
                   !.again = (last.op = "clean_pool"),
                   !.closedRaw =
                       \/ \E i \in 1..Len(idle_connections) :
                             db[idle_connections[i]] # "none"
                       \/ last.op = "clean_pool" /\ last.closedRaw]
    /\ UNCHANGED <<nconn, handles, hist, ntx, nfault>>
    /\ UNCHANGED <<call, conc>>

\* the server drops the connection of a session
Break(s) ==
    /\ Ready
    /\ s \in 1..nconn
    /\ db[s] = "open"
    /\ nfault < MaxFaults
    /\ nfault' = nfault + 1
    /\ db' = [db EXCEPT ![s] = "broken"]
    /\ last' = [NoLast EXCEPT !.op = "break"]
    /\ UNCHANGED <<nconn, connections, idle_connections, pool_close, handles, hist, ntx>>
    /\ UNCHANGED <<call, conc>>

Next ==
    \/ \E t \in BOOLEAN : Connect(t)
    \/ \E h \in 1..MaxHandles : Close(h)
    \/ \E h \in 1..MaxHandles : Del(h)
    \/ \E h \in 1..MaxHandles, exc \in BOOLEAN : ConnectorExit(h, exc)
    \/ \E h \in 1..MaxHandles : Commit(h)
    \/ \E h \in 1..MaxHandles : Rollback(h)
    \/ TransactionContextNew
    \/ \E h \in 1..MaxHandles : TransactionContextNested(h)
    \/ \E h \in 1..MaxHandles, exc \in BOOLEAN : TransactionContextExit(h, exc)
    \/ CleanPool
    \/ \E s \in Sessions : Break(s)
    \/ \E h \in 1..MaxHandles : Use(h)

Spec == Init /\ [][Next]_vars

\* --------------------------------------- connect, statement by statement
\* the local state of the running call
Local ==
    [Start EXCEPT !.popped = call.popped, !.made = call.made]

\* sessions built unconnected by a step from st to r
NewFault(r) == IF r.n > nconn /\ r.db[r.n] = "none" THEN 1 ELSE 0

\* `return _Connector(conn, self, is_transaction=...)`, or the error that
\* leaves connect
Return(r) ==
    /\ IF r.err = "none"
       THEN /\ handles' = [handles EXCEPT ![NewSlot] =
                               NewConnector(r.ret, call.is_transaction)]
            /\ hist' = [hist EXCEPT ![NewSlot] = [NoHist EXCEPT
                           !.entered = IF call.is_transaction THEN 1 ELSE 0,
                           !.pure = call.is_transaction]]
            /\ ntx' = IF call.is_transaction THEN ntx + 1 ELSE ntx
       ELSE UNCHANGED <<handles, hist, ntx>>
    /\ last' = [NoLast EXCEPT !.op = "connect",
                   !.h = IF r.err = "none" THEN NewSlot ELSE 0,
                   !.conn = IF r.err = "none" THEN r.ret ELSE 0,
                   !.err = r.err, !.popped = r.popped, !.passed = r.passed,
                   !.made = r.made, !.tried = r.tried, !.full = call.full]
    /\ call' = NoCall

\* pool.connect(is_transaction) is called: the test of the idle queue
CallConnect(is_transaction) ==
    /\ Ready
    /\ \E h \in 1..MaxHandles : Free(h)
    /\ is_transaction => ntx < MaxTx
    /\ call' = [NoCall EXCEPT
                   !.pc = IF idle_connections # <<>> THEN "get_idle" ELSE "create",
                   !.is_transaction = is_transaction,
                   !.queue = idle_connections,
                   !.full = (Len(connections) >= PoolSize)]
    /\ UNCHANGED <<db, nconn, connections, idle_connections, pool_close, handles,
                   hist, ntx, nfault, last, conc>>

\* one invocation of get_idle_connect: on an empty queue it returns None
\* and connect goes on to its factory call; otherwise it pops the head and
\* pings it, and returns it to connect, which returns the handle, or
\* calls itself
GetIdleStep ==
    /\ call.pc = "get_idle"
    /\ IF idle_connections = <<>>
       THEN /\ call' = [call EXCEPT !.pc = "create"]
            /\ UNCHANGED <<db, nconn, connections, idle_connections, handles,
                           hist, ntx, nfault, last>>
       ELSE \E outcome \in FactoryOutcomes :
              \E g \in {GetIdleOnce(Local, outcome)} :
              /\ g.n <= MaxSessions
              /\ nfault + NewFault(g) <= MaxFaults
              /\ db' = g.db
              /\ nconn' = g.n
              /\ connections' = g.conns
              /\ idle_connections' = g.idle
              /\ nfault' = nfault + NewFault(g)
              /\ IF g.err = "none"
                 THEN Return(g)
                 ELSE /\ call' = [call EXCEPT !.popped = g.popped, !.made = g.made]
                      /\ UNCHANGED <<handles, hist, ntx, last>>
    /\ UNCHANGED <<pool_close, conc>>

\* the factory call of connect, the capacity test and the return
CreateStep ==
    /\ call.pc = "create"
    /\ \E outcome \in FactoryOutcomes :
         \E c \in {CreateAndAdmit(Local, outcome)} :
         /\ c.n <= MaxSessions
         /\ nfault + NewFault(c) <= MaxFaults
         /\ db' = c.db
         /\ nconn' = c.n
         /\ connections' = c.conns
         /\ nfault' = nfault + NewFault(c)
         /\ Return(c)
    /\ UNCHANGED <<idle_connections, pool_close, conc>>

StepNext ==
    \/ \E t \in BOOLEAN : CallConnect(t)
    \/ GetIdleStep
    \/ CreateStep
    \/ \E h \in 1..MaxHandles : Close(h)
    \/ \E h \in 1..MaxHandles : Del(h)
    \/ CleanPool
    \/ \E s \in Sessions : Break(s)

\* a call that runs goes on running: the interpreter executes its next
\* statement
StepSpec ==
    Init /\ [][StepNext]_vars /\ WF_vars(GetIdleStep) /\ WF_vars(CreateStep)

\* ------------------------------------------------- concurrent callers
\* Threads call pool.connect(), handle.close() and pool.clean_pool() with
\* no lock: a thread switch can fall between any two statements of a call.
\* The server stays up.
At(t, pc) == conc.frame[t].pc = pc
Goto(t, f) == conc' = [conc EXCEPT !.frame[t] = f]
AllIdle == \A t \in Threads : At(t, "idle")

\* connect is called: the test of the idle queue
ThreadConnect(t) ==
    /\ Ready /\ At(t, "idle")
    /\ Cardinality({h \in 1..MaxHandles : Free(h)})
          > Cardinality({u \in Threads : conc.frame[u].pc \in
                            {"get_idle", "create", "read", "admit"}})
    /\ conc' = [conc EXCEPT
                   !.frame[t] = [NoFrame EXCEPT !.pc =
                        IF idle_connections # <<>> THEN "get_idle" ELSE "create"],
                   !.late = @ \/ pool_close]
    /\ UNCHANGED <<db, nconn, connections, idle_connections, pool_close, handles,
                   hist, ntx, nfault, last, call>>

\* one invocation of get_idle_connect (with its _ping), up to the return of
\* the handle by connect or to the recursive call
ThreadGetIdle(t) ==
    /\ At(t, "get_idle")
    /\ IF idle_connections = <<>>
       THEN /\ Goto(t, [NoFrame EXCEPT !.pc = "create"])
            /\ UNCHANGED <<db, nconn, connections, idle_connections, handles,
                           nfault>>
       ELSE \E outcome \in FactoryOutcomes :
              \E g \in {GetIdleOnce(Start, outcome)} :
              /\ g.n <= MaxSessions
              /\ nfault + NewFault(g) <= MaxFaults
              /\ db' = g.db
              /\ nconn' = g.n
              /\ connections' = g.conns
              /\ idle_connections' = g.idle
              /\ nfault' = nfault + NewFault(g)
              /\ IF g.err = "none"
                 THEN /\ handles' = [handles EXCEPT ![NewSlot] =
                                         NewConnector(g.ret, FALSE)]
                      /\ Goto(t, NoFrame)
                 ELSE /\ UNCHANGED handles
                      /\ UNCHANGED conc
    /\ UNCHANGED <<pool_close, hist, ntx, last, call>>

\* conn = self._create()
ThreadCreate(t) ==
    /\ At(t, "create")
    /\ \E outcome \in FactoryOutcomes :
         \E c \in {Create(Start, outcome)} :
         /\ c.n <= MaxSessions
         /\ nfault + NewFault(c) <= MaxFaults
         /\ db' = c.db
         /\ nconn' = c.n
         /\ nfault' = nfault + NewFault(c)
         /\ IF c.err = "none"
            THEN Goto(t, [NoFrame EXCEPT !.pc = "read", !.conn = c.ret])
            ELSE Goto(t, NoFrame)
    /\ UNCHANGED <<connections, idle_connections, pool_close, handles, hist, ntx,
                   last, call>>

\* current_pool_size = len(self._connections)
ThreadReadSize(t) ==
    /\ At(t, "read")
    /\ Goto(t, [conc.frame[t] EXCEPT !.pc = "admit", !.conns = connections])
    /\ UNCHANGED <<db, nconn, connections, idle_connections, pool_close, handles,
                   hist, ntx, nfault, last, call>>

\* the capacity test on the size read, the append and the return of the
\* handle
ThreadAdmit(t) ==
    /\ At(t, "admit")
    /\ connections' = IF HasRoom(conc.frame[t])
                      THEN Append(connections, conc.frame[t].conn)
                      ELSE connections
    /\ handles' = [handles EXCEPT ![NewSlot] =
                       NewConnector(conc.frame[t].conn, FALSE)]
    /\ Goto(t, NoFrame)
    /\ UNCHANGED <<db, nconn, idle_connections, pool_close, hist, ntx, nfault,
                   last, call>>

\* handle.close() up to its membership test: self._closed = True and
\* `self.conn not in self._pool._connections`
ThreadCloseTest(t, h) ==
    /\ Ready /\ At(t, "idle")
    /\ Held(h)
    /\ ~in_transaction(handles, h)
    /\ \A u \in Threads : conc.frame[u].pc = "route" => conc.frame[u].h # h
    /\ handles' = [handles EXCEPT ![h].closed = TRUE]
    /\ Goto(t, [NoFrame EXCEPT !.pc = "route", !.h = h, !.conn = handles[h].conn,
                               !.member = IsPooled(Start, handles[h].conn)])
    /\ UNCHANGED <<db, nconn, connections, idle_connections, pool_close, hist,
                   ntx, nfault, last, call>>

\* the branch close takes on the result of the test: self.conn.close() or
\* the append to the idle queue
ThreadCloseRoute(t) ==
    /\ At(t, "route")
    /\ IF conc.frame[t].member
       THEN /\ CanEnqueue
            /\ idle_connections' = Append(idle_connections, conc.frame[t].conn)
            /\ UNCHANGED db
       ELSE /\ db' = [db EXCEPT ![conc.frame[t].conn] = "none"]
            /\ UNCHANGED idle_connections
    /\ Goto(t, NoFrame)
    /\ UNCHANGED <<nconn, connections, pool_close, handles, hist, ntx, nfault,
                   last, call>>

\* clean_pool: self.pool_close = True
ThreadCleanStart(t) ==
    /\ Ready /\ At(t, "idle")
    /\ \A u \in Threads : conc.frame[u].pc \notin {"loop", "clear_idle", "clear_active"}
    /\ pool_close' = TRUE
    /\ Goto(t, [NoFrame EXCEPT !.pc = "loop", !.i = 1])
    /\ UNCHANGED <<db, nconn, connections, idle_connections, handles, hist, ntx,
                   nfault, last, call>>

\* clean_pool: one turn of `for connect in self._idle_connections`, whose
\* iterator reads the list, as it is now, at its position
ThreadCleanLoop(t) ==
    /\ At(t, "loop")
    /\ IF conc.frame[t].i <= Len(idle_connections)
       THEN /\ db' = [db EXCEPT ![idle_connections[conc.frame[t].i]] = "none"]
            /\ Goto(t, [conc.frame[t] EXCEPT !.i = @ + 1])
       ELSE /\ Goto(t, [NoFrame EXCEPT !.pc = "clear_idle"])
            /\ UNCHANGED db
    /\ UNCHANGED <<nconn, connections, idle_connections, pool_close, handles, hist,
                   ntx, nfault, last, call>>

\* clean_pool: self._idle_connections = []
ThreadCleanIdle(t) ==
    /\ At(t, "clear_idle")
    /\ idle_connections' = <<>>
    /\ Goto(t, [NoFrame EXCEPT !.pc = "clear_active"])
    /\ UNCHANGED <<db, nconn, connections, pool_close, handles, hist, ntx, nfault,
                   last, call>>

\* clean_pool: self._connections = []
ThreadCleanActive(t) ==
    /\ At(t, "clear_active")
    /\ connections' = <<>>
    /\ Goto(t, NoFrame)
    /\ UNCHANGED <<db, nconn, idle_connections, pool_close, handles, hist, ntx,
                   nfault, last, call>>

ConcNext ==
    \/ \E t \in Threads : ThreadConnect(t)
    \/ \E t \in Threads : ThreadGetIdle(t)
    \/ \E t \in Threads : ThreadCreate(t)
    \/ \E t \in Threads : ThreadReadSize(t)
    \/ \E t \in Threads : ThreadAdmit(t)
    \/ \E t \in Threads, h \in 1..MaxHandles : ThreadCloseTest(t, h)
    \/ \E t \in Threads : ThreadCloseRoute(t)
    \/ \E t \in Threads : ThreadCleanStart(t)
    \/ \E t \in Threads : ThreadCleanLoop(t)
    \/ \E t \in Threads : ThreadCleanIdle(t)
    \/ \E t \in Threads : ThreadCleanActive(t)

ConcSpec == Init /\ [][ConcNext]_vars

\* ------------------------------------------------------------- claims
Handles == {h \in 1..MaxHandles : ~Free(h)}
CheckoutOps == {"connect", "tx_new"}
CommitOps == {"commit", "tx_exit"}
RollbackOps == {"rollback", "tx_exit_exc"}
IsOpen(h) == h \in Handles /\ ~handles[h].closed

\* C1: for every N >= 1, N transaction entries on a handle checked out with
\* is_transaction followed by N commit_transaction calls issue exactly one
\* real commit on the raw session, at the N-th call: on a handle that has
\* seen only such entries and k >= 1 commit calls, no commit was issued
\* while k < N, and exactly one once k = N.
C1_NestingArithmetic ==
    \A h \in Handles :
        (hist[h].pure /\ hist[h].commitCalls >= 1) =>
            /\ hist[h].commitCalls < hist[h].entered => hist[h].realCommits = 0
            /\ hist[h].commitCalls = hist[h].entered => hist[h].realCommits = 1

\* C2: with two frames open on a handle (level 2, session answering), a
\* rollback_transaction of the inner frame leaves the level at 0, and the
\* commit_transaction that follows it on that handle raises
\* TransactionAbortError and issues no commit.
C2_AbortPropagation ==
    /\ (last.op \in RollbackOps /\ hist[last.h].rb2) =>
            handles[last.h].transaction_level = 0
    /\ (last.op \in CommitOps /\ last.rb2) =>
            (last.err = "TransactionAbortError" /\ ~last.commit)

\* C3: a handle returned by a checkout wraps the session that passed the
\* liveness check or a session the factory built during that checkout; in
\* particular never an idle session found dead.
C3_CheckoutNeverDead ==
    (last.op \in CheckoutOps /\ last.conn # 0) =>
        \/ last.conn = last.passed
        \/ InSeq(last.conn, last.made)

\* C4: a nested transaction_context entry on a handle whose session fails
\* the liveness check raises ConnectionClosedError, builds no session,
\* leaves the active set as it was and does not increment the level.
C4_NestedEntryDeadSurfaces ==
    (last.op = "tx_nested" /\ last.passed = 0) =>
        /\ last.err = "ConnectionClosedError"
        /\ last.made = <<>>
        /\ ~last.swapped
        /\ handles[last.h].transaction_level = last.lvl

\* C5: no raw session is in the idle queue while an open handle wraps it,
\* and no raw session is wrapped by two open handles.
C5_OwnershipUnique ==
    /\ \A h \in Handles :
          IsOpen(h) => ~InSeq(handles[h].conn, idle_connections)
    /\ \A g, h \in Handles :
          (IsOpen(g) /\ IsOpen(h) /\ handles[g].conn = handles[h].conn) => g = h

\* C10: when an exception escapes `with handle:` while the handle is
\* mid-transaction, the exit rolls back through rollback_transaction and
\* closes: afterwards the level is 0 and the handle is released.
C10_AbnormalScopeExit ==
    (last.op = "exit_exc" /\ last.lvl > 0) =>
        /\ handles[last.h].transaction_level = 0
        /\ handles[last.h].closed

\* C6: the active set never holds more than pool_size sessions, and a
\* checkout that reaches its own factory call while the active set is
\* full succeeds unless the factory raises: it returns a session built in
\* that call, which is not added to the active set.
C6_CapacitySoftBound ==
    /\ Len(connections) <= PoolSize
    /\ (last.op \in CheckoutOps /\ last.tried /\ last.full
            /\ last.err # "FactoryError") =>
          /\ last.conn # 0
          /\ InSeq(last.conn, last.made)
          /\ ~InSeq(last.conn, connections)

\* an overflow checkout happened: the active set was full, the handle
\* wraps a new session outside the active set
C6_Witness ==
    /\ last.op = "connect" /\ last.tried /\ last.full /\ last.h # 0
    /\ handles[last.h].conn = last.conn
    /\ Len(connections) = PoolSize
    /\ ~InSeq(last.conn, connections)

C8_CheckoutTerminates ==
    /\ [][ ~Ready =>
             /\ (IF call'.pc = "ready" THEN last'.popped ELSE call'.popped)
                    \o idle_connections' = call.queue
             /\ call'.pc = "ready" =>
                   /\ last'.op = "connect"
                   /\ last'.h # 0 \/ last'.err = "FactoryError"
         ]_vars
    /\ (~Ready) ~> Ready

\* a checkout found two idle entries, all dead, saw the factory fail for
\* each of them, and ended with a handle on the session it then built
C8_Witness ==
    /\ Ready /\ last.op = "connect" /\ Len(last.popped) = 2
    /\ last.passed = 0 /\ last.tried
    /\ last.h # 0 /\ handles[last.h].conn = last.conn
    /\ InSeq(last.conn, last.made)

\* C9: a transaction opened by transaction_context without a handle and
\* driven only through transaction_context scopes is released exactly
\* once: its releases never exceed one, and once every scope has exited
\* the level is 0 and the handle has been released.
C9_ReleasedExactlyOnce ==
    \A h \in Handles :
        hist[h].onScript =>
            /\ hist[h].released <= 1
            /\ hist[h].frames = 0 =>
                  (handles[h].transaction_level = 0 /\ hist[h].released = 1)

\* C11: when the body of a transaction_context scope raises, the exit calls
\* rollback_transaction on the handle (which lowers a level of 1 or more,
\* and raises TransactionAbortError on a level below 1) and the caller sees
\* the error of the body, whether the rollback raised or not.
C11_BodyErrorPropagates ==
    last.op = "tx_exit_exc" =>
        /\ last.raised = "BodyError"
        /\ last.lvl >= 1 => handles[last.h].transaction_level < last.lvl
        /\ last.lvl < 1 => last.err = "TransactionAbortError"

\* a scope was left by an error of its body and the rollback failed on a
\* session whose server is gone
C11_Witness ==
    /\ last.op = "tx_exit_exc" /\ last.err = "OperationalError"
    /\ last.rollback /\ last.raised = "BodyError"


C13_UseAfterRelease ==
    [][ (last'.op = "use" /\ handles[last'.h].closed) =>
            /\ last'.err = "ConnectionClosedError"
            /\ ~last'.reached
            /\ db' = db
      ]_vars

\* a session method was called through a closed handle whose session
\* waits, alive, in the idle queue
C13_Witness ==
    /\ last.op = "use" /\ handles[last.h].closed
    /\ handles[last.h].transaction_level = 0
    /\ last.err = "ConnectionClosedError"
    /\ db[last.conn] = "open" /\ InSeq(last.conn, idle_connections)


\* C14: clean_pool closes every session of the idle queue, empties the
\* idle queue and the active set and marks the pool closed; a second call
\* right after the first changes neither the pool nor any session.
C14_TeardownIdempotent ==
    [][ last'.op = "clean_pool" =>
            /\ \A i \in 1..Len(idle_connections) : db'[idle_connections[i]] = "none"
            /\ idle_connections' = <<>>
            /\ connections' = <<>>
            /\ pool_close'
            /\ last.op = "clean_pool" =>
                  /\ db' = db
                  /\ idle_connections' = idle_connections
                  /\ connections' = connections
                  /\ pool_close' = pool_close
                  /\ handles' = handles
      ]_vars

\* clean_pool was called twice in a row on a pool whose idle queue held a
\* session, now closed, while a handle was still out
C14_Witness ==
    /\ last.op = "clean_pool" /\ last.again /\ last.closedRaw
    /\ pool_close /\ idle_connections = <<>> /\ connections = <<>>
    /\ \E s \in 1..nconn : db[s] = "none"
    /\ \E h \in Handles : IsOpen(h) /\ db[handles[h].conn] = "open"


\* C15: every session in the idle queue is a member of the active set.
C15_IdleWithinActive ==
    \A i \in 1..Len(idle_connections) : InSeq(idle_connections[i], connections)


\* C16: close on a handle whose level is above 0 (called by the user, by
\* the exit of `with` or by the finalizer) leaves the sessions, the active
\* set and the idle queue as they were, and the user's close leaves the
\* handle open at its level; an open handle whose level is above 0 is
\* released only by a commit_transaction or rollback_transaction on it
\* that leaves its level at 0.
C16_ReleaseDeferred ==
    [][ /\ (last'.op \in {"close", "del"} /\ last'.lvl > 0) =>
              /\ db' = db
              /\ connections' = connections
              /\ idle_connections' = idle_connections
              /\ ~last'.enq /\ ~last'.closedRaw
              /\ last'.op = "close" => handles' = handles
        /\ \A h \in 1..MaxHandles :
              (Held(h) /\ handles[h].transaction_level > 0
                   /\ ~handles[h].closed /\ handles'[h].closed) =>
                  /\ last'.op \in CommitOps \cup RollbackOps
                  /\ last'.h = h
                  /\ handles'[h].transaction_level = 0
      ]_vars

\* close was called on an open handle at level 2 whose session is alive
\* and in the active set: the handle is still open at level 2
C16_Witness ==
    /\ last.op = "close" /\ last.lvl = 2
    /\ IsOpen(last.h) /\ handles[last.h].transaction_level = 2
    /\ db[last.conn] = "open" /\ InSeq(last.conn, connections)
    /\ ~InSeq(last.conn, idle_connections)


\* C17: when callers run connect concurrently, with thread switches
\* between the reading of the size of the active set and the append, the
\* active set never holds more than pool_size sessions.
C17_CapacityUnderInterleaving ==
    Len(connections) <= PoolSize

\* C18: when clean_pool runs interleaved with the close of handles checked
\* out before it and no checkout is called after it began, then once every
\* call has returned and every handle is released, the idle queue and the
\* active set are empty and every session built is closed.
C18_TeardownSafe ==
    (AllIdle /\ pool_close /\ ~conc.late
        /\ \A h \in Handles : handles[h].closed) =>
          /\ idle_connections = <<>>
          /\ connections = <<>>
          /\ \A s \in 1..nconn : db[s] = "none"


\* C19: every session of the active set is in the idle queue or wrapped by
\* an open handle.
C19_NoSlotLost ==
    \A i \in 1..Len(connections) :
        \/ InSeq(connections[i], idle_connections)
        \/ \E h \in Handles : IsOpen(h) /\ handles[h].conn = connections[i]


\* C20: no session occurs twice in the idle queue, and a close on a handle
\* that is already closed leaves the idle queue and the active set as they
\* were.
C20_IdleNoDuplicates ==
    [][ /\ \A s \in Sessions : Count(s, idle_connections') <= 1
        /\ (last'.op = "close" /\ handles[last'.h].closed) =>
              /\ idle_connections' = idle_connections
              /\ connections' = connections
      ]_vars

====
